---- MODULE Spec2Model ----
(***************************************************************************)
(* Model of the chunking and retrieval pipeline of report-analysis:        *)
(*   TextChunker   (src/document_processing/text_chunker.py)               *)
(*   ChromaService (src/vector_db/chroma_service.py)                       *)
(*   PDFService    (src/document_processing/pdf_service.py)                *)
(*   the document routes (src/api/routes/document_routes.py)               *)
(* Strings are sequences of one-character strings, so len() is Len and     *)
(* split/join/strip are computed character by character.                   *)
(***************************************************************************)
EXTENDS Integers, Sequences, FiniteSets, TLC

VARIABLES
    \* ---- TextChunker.chunk_text: arguments, configuration, locals ----
    text,             \* argument text
    document_id,      \* argument document_id (<<>> when None / empty)
    metadata,         \* argument metadata (empty mapping when None / empty)
    chunk_size,       \* self.chunk_size
    chunk_overlap,    \* self.chunk_overlap
    separator,        \* self.separator
    max_chunks,       \* self.max_chunks
    splits,           \* local splits
    idx,              \* number of elements of splits the for loop has taken
    chunks,           \* local chunks
    chunks_metadata,  \* local chunks_metadata
    current_chunk,    \* local current_chunk
    current_length,   \* local current_length
    pc,               \* position in chunk_text
    \* ---- the service: PDFService, ChromaService, the documents table ----
    auto_chunk,       \* PDFService.auto_chunk
    documents,        \* the documents table: id -> row
    collection,       \* the Chroma collection: chunk id -> record
    clock,            \* datetime.now()
    next_uuid,        \* the next value uuid.uuid4 gives
    response,         \* what the last request answered
    ingested,         \* per document, processed_at of the last process_chunks
                      \* call that returned without error (0: none so far)
    chroma,           \* the attributes ChromaService.__init__ and _initialize set
    \* ---- TextChunker.create_chunk_with_context: arguments and result ----
    context

chunkerVars == <<text, document_id, metadata, chunk_size, chunk_overlap, separator,
                 max_chunks, splits, idx, chunks, chunks_metadata, current_chunk,
                 current_length, pc>>

serviceVars == <<auto_chunk, documents, collection, clock, next_uuid, response, ingested>>

otherVars == <<chroma, context>>

vars == <<chunkerVars, serviceVars, otherVars>>

----------------------------------------------------------------------------
(* Bounds of the explored inputs *)

MaxPieces == 4
MaxChunkSize == 4
MaxOverlap == 3
MaxMaxChunks == 2

\* the pieces input texts are assembled from
Pieces == { <<"a">>, <<"b", "b">>, <<" ">>, <<>>, <<"c", "\r">> }

\* the pieces and sizes of the texts explored for termination
ShortPieces == { <<"a">>, <<"b", "b">>, <<" ">> }
MaxShortPieces == 3
MaxShortChunkSize == 2

\* separators a configuration may name; <<>> is the empty string
Separators == { <<"\n">>, <<"\n", "\n">>, <<>> }

----------------------------------------------------------------------------
(* String helpers: what str.strip, re.sub, str.split and str.join compute *)

Whitespace == {" ", "\n", "\r", "\t"}

\* a test that takes only the empty string for blank
IsBlankOnlyEmpty(s) == s = <<>>

\* not split.strip()
IsBlank(s) == \A i \in 1..Len(s) : s[i] \in Whitespace

RECURSIVE NormalizeCRLF(_)
\* re.sub(r'\r\n', '\n', text)
NormalizeCRLF(s) ==
    IF Len(s) = 0 THEN <<>>
    ELSE IF Len(s) >= 2 /\ s[1] = "\r" /\ s[2] = "\n"
         THEN <<"\n">> \o NormalizeCRLF(SubSeq(s, 3, Len(s)))
         ELSE <<s[1]>> \o NormalizeCRLF(Tail(s))

\* positions where sep occurs in s
Occurrences(s, sep) ==
    { i \in 1..(Len(s) - Len(sep) + 1) : SubSeq(s, i, i + Len(sep) - 1) = sep }

Min(S) == CHOOSE x \in S : \A y \in S : x <= y

RECURSIVE Split(_, _)
\* text.split(separator) for a non-empty separator: leftmost, non-overlapping
Split(s, sep) ==
    IF Occurrences(s, sep) = {} THEN << s >>
    ELSE LET i == Min(Occurrences(s, sep))
         IN  << SubSeq(s, 1, i - 1) >> \o Split(SubSeq(s, i + Len(sep), Len(s)), sep)

RECURSIVE Join(_, _)
\* separator.join(items)
Join(items, sep) ==
    IF Len(items) = 0 THEN <<>>
    ELSE IF Len(items) = 1 THEN items[1]
    ELSE items[1] \o sep \o Join(Tail(items), sep)

----------------------------------------------------------------------------
(* Mappings (Python dicts) *)

EmptyDict == [k \in {} |-> 0]

\* a.update(b)
Update(a, b) == [k \in (DOMAIN a) \cup (DOMAIN b) |-> IF k \in DOMAIN b THEN b[k] ELSE a[k]]

----------------------------------------------------------------------------
(* TextChunker.chunk_text *)

\* chunk_meta in which the caller's metadata is applied last
ChunkMetaCallerLast(chunk, meta, doc) ==
    LET m0 == [k \in {"length"} |-> Len(chunk)]
        m1 == IF doc # <<>> THEN Update(m0, [k \in {"document_id"} |-> doc]) ELSE m0
    IN  Update(m1, meta)

\* chunk_meta of one chunk: {"length": len(chunk_text)}, then the caller's
\* metadata, then the document_id argument
ChunkMeta(chunk, meta, doc) ==
    LET m0 == [k \in {"length"} |-> Len(chunk)]
        m1 == IF DOMAIN meta # {} THEN Update(m0, meta) ELSE m0
    IN  IF doc # <<>> THEN Update(m1, [k \in {"document_id"} |-> doc]) ELSE m1

RECURSIVE OverlapWalkStrict(_, _, _, _, _)
\* the backward walk with "<" where the code has "<=": a segment that fills
\* the overlap exactly is not kept
OverlapWalkStrict(cur, k, acc, len, cfg) ==
    IF k = 0 THEN [splits |-> acc, length |-> len]
    ELSE IF len + Len(cur[k]) < cfg.chunk_overlap
         THEN OverlapWalkStrict(cur, k - 1, <<cur[k]>> \o acc,
                                len + Len(cur[k]) + Len(cfg.separator), cfg)
         ELSE [splits |-> acc, length |-> len]

RECURSIVE OverlapWalk(_, _, _, _, _)
\* the backward walk over current_chunk: k items are still to be visited,
\* acc is overlap_splits and len is overlap_length so far
OverlapWalk(cur, k, acc, len, cfg) ==
    IF k = 0 THEN [splits |-> acc, length |-> len]
    ELSE IF len + Len(cur[k]) <= cfg.chunk_overlap
         THEN OverlapWalk(cur, k - 1, <<cur[k]>> \o acc,
                          len + Len(cur[k]) + Len(cfg.separator), cfg)
         ELSE [splits |-> acc, length |-> len]

\* overlap_splits and overlap_length kept from a chunk that was just closed
OverlapSplits(cur, cfg) == OverlapWalk(cur, Len(cur), <<>>, 0, cfg)

\* the buffer after a chunk was closed
ResetBuffer(cur, cfg) ==
    IF cfg.chunk_overlap > 0
    THEN OverlapSplits(cur, cfg)
    ELSE [splits |-> <<>>, length |-> 0]

\* the closing test without the length of the split that is about to be added
\* a test that never closes the current chunk
MustCloseNever(st, split, cfg) == FALSE /\ st.current_length > cfg.chunk_size

MustCloseIgnoresSplit(st, split, cfg) ==
    st.current_length > cfg.chunk_size /\ st.current_length > 0

\* the test that closes the current chunk before split is added
MustClose(st, split, cfg) ==
    st.current_length + Len(split) > cfg.chunk_size /\ st.current_length > 0

\* the test that leaves the loop after split was added
LimitReached(nchunks, cfg) == nchunks >= cfg.max_chunks

\* an iteration that loses the split whose arrival closed a chunk
LoopBodyDropsSplit(st, split, cfg, meta, doc) ==
    LET closing == st.current_length + Len(split) > cfg.chunk_size /\ st.current_length > 0
        closed  == Join(st.current_chunk, cfg.separator)
        chunks1 == IF closing THEN Append(st.chunks, closed) ELSE st.chunks
        metas1  == IF closing
                   THEN Append(st.chunks_metadata, [k \in {"length"} |-> Len(closed)])
                   ELSE st.chunks_metadata
    IN  [chunks          |-> chunks1,
         chunks_metadata |-> metas1,
         current_chunk   |-> IF closing THEN <<>> ELSE Append(st.current_chunk, split),
         current_length  |-> IF closing THEN 0
                             ELSE st.current_length + Len(split) + Len(cfg.separator),
         brk             |-> Len(chunks1) >= cfg.max_chunks]

\* one iteration of "for split in splits" on a split that is not blank;
\* st holds chunks, chunks_metadata, current_chunk, current_length; brk tells
\* whether the iteration ended in break
LoopBody(st, split, cfg, meta, doc) ==
    LET closing == MustClose(st, split, cfg)
        closed  == Join(st.current_chunk, cfg.separator)
        chunks1 == IF closing THEN Append(st.chunks, closed) ELSE st.chunks
        metas1  == IF closing
                   THEN Append(st.chunks_metadata, ChunkMeta(closed, meta, doc))
                   ELSE st.chunks_metadata
        buf     == IF closing
                   THEN ResetBuffer(st.current_chunk, cfg)
                   ELSE [splits |-> st.current_chunk, length |-> st.current_length]
    IN  [chunks          |-> chunks1,
         chunks_metadata |-> metas1,
         current_chunk   |-> Append(buf.splits, split),
         current_length  |-> buf.length + Len(split) + Len(cfg.separator),
         brk             |-> LimitReached(Len(chunks1), cfg)]

\* a return that forgets the last chunk
FlushDropsLast(st, cfg, meta, doc) ==
    [chunks |-> st.chunks, chunks_metadata |-> st.chunks_metadata]

\* "Don't forget the last chunk": the chunks and metadata returned
Flush(st, cfg, meta, doc) ==
    IF st.current_chunk # <<>>
    THEN LET last == Join(st.current_chunk, cfg.separator)
         IN  [chunks          |-> Append(st.chunks, last),
              chunks_metadata |-> Append(st.chunks_metadata, ChunkMeta(last, meta, doc))]
    ELSE [chunks |-> st.chunks, chunks_metadata |-> st.chunks_metadata]

EmptyState ==
    [chunks |-> <<>>, chunks_metadata |-> <<>>, current_chunk |-> <<>>,
     current_length |-> 0, brk |-> FALSE]

RECURSIVE RunLoop(_, _, _, _, _, _)
\* the for loop from element i of sp on
RunLoop(st, sp, i, cfg, meta, doc) ==
    IF i > Len(sp) \/ st.brk THEN st
    ELSE IF IsBlank(sp[i]) THEN RunLoop(st, sp, i + 1, cfg, meta, doc)
    ELSE RunLoop(LoopBody(st, sp[i], cfg, meta, doc), sp, i + 1, cfg, meta, doc)

\* chunk_text(text, document_id, metadata) as a whole: ([], []) for an empty
\* text and when str.split raises on an empty separator
ChunkText(t, doc, meta, cfg) ==
    IF t = <<>> \/ cfg.separator = <<>>
    THEN [chunks |-> <<>>, chunks_metadata |-> <<>>]
    ELSE Flush(RunLoop(EmptyState, Split(NormalizeCRLF(t), cfg.separator), 1, cfg, meta, doc),
               cfg, meta, doc)

----------------------------------------------------------------------------
(* Identifiers: UUIDs are 1, 2, ...; str(uuid) and the chunk ids are strings *)

Digits == <<"0", "1", "2", "3", "4", "5", "6", "7", "8", "9">>

RECURSIVE IntStr(_)
\* str(n) for n >= 0
IntStr(n) == IF n < 10 THEN <<Digits[n + 1]>> ELSE IntStr(n \div 10) \o <<Digits[(n % 10) + 1]>>

\* str(document_id)
UuidStr(d) == <<"u">> \o IntStr(d)

\* chunk ids counted from 1
ChunkIdOneBased(d, i) == <<"u">> \o IntStr(d) \o <<"_">> \o IntStr(i + 1)

\* f"{document_id}_{i}"
ChunkId(d, i) == UuidStr(d) \o <<"_">> \o IntStr(i)

Range(f) == { f[x] : x \in DOMAIN f }

----------------------------------------------------------------------------
(* ChromaService.__init__ and _initialize: the embedding backend *)

\* the settings __init__ reads: vector_db.embedding_function,
\* vector_db.embedding_model, openai.embedding_model, and whether an API key
\* is found in the configuration or the environment
ChromaDefaults ==
    [embedding_function |-> "sentence_transformer", embedding_model |-> "all-MiniLM-L6-v2",
     openai_model |-> "text-embedding-ada-002", has_api_key |-> FALSE]

ChromaSettings ==
    { [ChromaDefaults EXCEPT !.embedding_function = name, !.has_api_key = key] :
         name \in {"sentence_transformer", "openai"}, key \in BOOLEAN }

\* _initialize that keeps the configured name when the API key is missing
InitializeKeepsName(settings) ==
    [collection_name         |-> "document_chunks",
     embedding_function_name |-> settings.embedding_function,
     embedding_model         |-> settings.embedding_model,
     openai_model            |-> settings.openai_model,
     has_api_key             |-> settings.has_api_key,
     configured              |-> settings.embedding_function,
     embedding_function      |->
         IF settings.embedding_function = "openai" /\ settings.has_api_key
         THEN [kind |-> "openai", model |-> settings.openai_model]
         ELSE [kind |-> "sentence_transformer", model |-> settings.embedding_model]]

\* the attributes after __init__ and _initialize; configured remembers
\* the name the configuration gave; embedding_function is the function
\* object handed to the collection (kind "unset" stands for None)
Initialize(settings) ==
    LET openai   == settings.embedding_function = "openai"
        fallback == openai /\ ~settings.has_api_key
        name     == IF fallback THEN "sentence_transformer" ELSE settings.embedding_function
        first    == IF openai /\ settings.has_api_key
                    THEN [kind |-> "openai", model |-> settings.openai_model]
                    ELSE [kind |-> "unset", model |-> ""]
    IN  [collection_name         |-> "document_chunks",
         embedding_function_name |-> name,
         embedding_model         |-> settings.embedding_model,
         openai_model            |-> settings.openai_model,
         has_api_key             |-> settings.has_api_key,
         configured              |-> settings.embedding_function,
         embedding_function      |->
             IF name # "openai" \/ first.kind = "unset"
             THEN [kind |-> "sentence_transformer", model |-> settings.embedding_model]
             ELSE first]

\* get_collection_stats that counts the documents instead of the chunks
GetCollectionStatsCountsDocuments(svc, coll, fails) ==
    IF fails THEN [error |-> "count failed"]
    ELSE [collection_name       |-> svc.collection_name,
          document_chunks_count |-> Cardinality({ coll[id].metadata.document_id : id \in DOMAIN coll }),
          embedding_function    |-> svc.embedding_function_name,
          embedding_model       |-> IF svc.embedding_function_name # "openai"
                                    THEN svc.embedding_model ELSE svc.openai_model]

\* get_collection_stats(); fails tells whether collection.count() raised
GetCollectionStats(svc, coll, fails) ==
    IF fails THEN [error |-> "count failed"]
    ELSE [collection_name       |-> svc.collection_name,
          document_chunks_count |-> Cardinality(DOMAIN coll),
          embedding_function    |-> svc.embedding_function_name,
          embedding_model       |-> IF svc.embedding_function_name # "openai"
                                    THEN svc.embedding_model ELSE svc.openai_model]

----------------------------------------------------------------------------
(* TextChunker.create_chunk_with_context *)

\* no call of create_chunk_with_context is under way
NoContext ==
    [chunk_text |-> <<>>, source_text |-> <<>>, window_given |-> FALSE, window_size |-> 0,
     context_window_size |-> 0, result |-> <<>>, pc |-> "idle"]

\* source_text.find(chunk_text): the first index (from 0) or -1
Find(source_text, chunk) ==
    LET at == { s \in 0..(Len(source_text) - Len(chunk)) :
                   SubSeq(source_text, s + 1, s + Len(chunk)) = chunk }
    IN  IF at = {} THEN -1 ELSE CHOOSE s \in at : \A t \in at : s <= t

\* a slice bound as Python reads it: a negative one counts from the end
SliceBound(n, len) ==
    IF n < 0 THEN (IF len + n < 0 THEN 0 ELSE len + n)
    ELSE IF n > len THEN len ELSE n

\* s[a:b]
Slice(s, a, b) == SubSeq(s, SliceBound(a, Len(s)) + 1, SliceBound(b, Len(s)))

\* create_chunk_with_context whose window is measured from the start of
\* the chunk on both sides
CreateChunkWithContextFromStart(chunk, source_text, given, window, configured) ==
    LET window_size == IF given THEN window ELSE configured
        chunk_start == Find(source_text, chunk)
        lo          == IF chunk_start - window_size > 0 THEN chunk_start - window_size ELSE 0
        hi          == IF chunk_start + window_size < Len(source_text)
                       THEN chunk_start + window_size ELSE Len(source_text)
    IN  IF chunk_start = -1 THEN chunk ELSE Slice(source_text, lo, hi)

\* create_chunk_with_context(chunk_text, source_text, window_size); given
\* tells whether window_size is not None, configured is
\* document_processing.context_window_size
CreateChunkWithContext(chunk, source_text, given, window, configured) ==
    LET window_size   == IF given THEN window ELSE configured
        chunk_start   == Find(source_text, chunk)
        chunk_end     == chunk_start + Len(chunk)
        context_start == IF chunk_start - window_size > 0 THEN chunk_start - window_size ELSE 0
        context_end   == IF chunk_end + window_size < Len(source_text)
                         THEN chunk_end + window_size ELSE Len(source_text)
    IN  IF chunk_start = -1 THEN chunk ELSE Slice(source_text, context_start, context_end)

----------------------------------------------------------------------------
(* ChromaService *)

\* metadatas with chunk_index counted from 1
PrepareMetadatasOneBased(d, chunkList, metadatas) ==
    IF metadatas = <<>>
    THEN [i \in 1..Len(chunkList) |-> [document_id |-> <<"u">> \o IntStr(d), chunk_index |-> i]]
    ELSE [i \in 1..Len(metadatas) |->
            Update(metadatas[i], [document_id |-> <<"u">> \o IntStr(d), chunk_index |-> i])]

\* the metadatas add_chunks hands to the collection: synthesized when none
\* are given, else document_id and chunk_index overwritten on every entry
PrepareMetadatas(d, chunkList, metadatas) ==
    IF metadatas = <<>>
    THEN [i \in 1..Len(chunkList) |-> [document_id |-> UuidStr(d), chunk_index |-> i - 1]]
    ELSE [i \in 1..Len(metadatas) |->
            Update(metadatas[i], [document_id |-> UuidStr(d), chunk_index |-> i - 1])]

\* collection.add(ids, documents, metadatas): a record is written for every
\* id the collection does not hold yet; an id it already holds keeps its record
CollectionAdd(coll, ids, docs, metas) ==
    [id \in (DOMAIN coll) \cup Range(ids) |->
        IF id \in DOMAIN coll THEN coll[id]
        ELSE LET i == CHOOSE j \in 1..Len(ids) : ids[j] = id
             IN  [document |-> docs[i], metadata |-> metas[i]]]

\* add_chunks that takes an empty chunk list for a successful write
AddChunksAcceptsEmpty(coll, d, chunkList, metadatas, fails) ==
    LET chunk_ids == [i \in 1..Len(chunkList) |-> <<"u">> \o IntStr(d) \o <<"_">> \o IntStr(i - 1)]
        metas     == [i \in 1..Len(chunkList) |->
                         [document_id |-> <<"u">> \o IntStr(d), chunk_index |-> i - 1]]
    IN  IF fails THEN [collection |-> coll, success |-> FALSE]
        ELSE [collection |-> [id \in (DOMAIN coll) \cup { chunk_ids[x] : x \in DOMAIN chunk_ids } |->
                                 IF id \in DOMAIN coll THEN coll[id]
                                 ELSE LET i == CHOOSE j \in 1..Len(chunk_ids) : chunk_ids[j] = id
                                      IN  [document |-> chunkList[i], metadata |-> metas[i]]],
              success |-> TRUE]

\* add_chunks(document_id, chunks, metadatas); fails tells whether the
\* collection raised (index unavailable, embedding failure)
AddChunks(coll, d, chunkList, metadatas, fails) ==
    IF chunkList = <<>> THEN [collection |-> coll, success |-> FALSE]
    ELSE LET chunk_ids == [i \in 1..Len(chunkList) |-> ChunkId(d, i - 1)]
             metas     == PrepareMetadatas(d, chunkList, metadatas)
         IN  IF fails \/ Len(metas) # Len(chunkList)
             THEN [collection |-> coll, success |-> FALSE]
             ELSE [collection |-> CollectionAdd(coll, chunk_ids, chunkList, metas),
                   success |-> TRUE]

\* a where clause satisfied by every record that has its keys
MatchesAnyValue(rec, where) ==
    \A k \in DOMAIN where : k \in DOMAIN rec.metadata

\* a record satisfies a where clause (the empty clause stands for None)
Matches(rec, where) ==
    \A k \in DOMAIN where : k \in DOMAIN rec.metadata /\ rec.metadata[k] = where[k]

\* a where clause that names the document without the str() conversion
DeleteWhereUnconverted(d) == [document_id |-> IntStr(d)]

\* the where clause of delete_document
DeleteWhere(d) == [document_id |-> UuidStr(d)]

\* delete_document that reports failure when the document has no chunks
DeleteDocumentFailsOnNone(coll, d, fails) ==
    LET gone == { x \in DOMAIN coll : coll[x].metadata.document_id = <<"u">> \o IntStr(d) }
    IN  IF fails \/ gone = {} THEN [collection |-> coll, success |-> FALSE]
        ELSE [collection |-> [id \in (DOMAIN coll) \ gone |-> coll[id]], success |-> TRUE]

\* delete_document(document_id)
DeleteDocument(coll, d, fails) ==
    IF fails THEN [collection |-> coll, success |-> FALSE]
    ELSE [collection |-> [id \in { x \in DOMAIN coll : ~Matches(coll[x], DeleteWhere(d)) } |-> coll[id]],
          success |-> TRUE]

\* where_filter in which an explicit filter wins over the document_id argument
WhereFilterExplicitWins(d, filter_dict) ==
    IF d # 0 THEN Update([document_id |-> <<"u">> \o IntStr(d)], filter_dict) ELSE filter_dict

\* where_filter of search: filter_dict, then document_id (0 stands for None)
WhereFilter(d, filter_dict) ==
    IF d # 0 THEN Update(filter_dict, [document_id |-> UuidStr(d)]) ELSE filter_dict

\* where_clause of search: "where_filter if where_filter else None"
\* (given = FALSE stands for None: no filter is handed to the index)
WhereClause(where_filter) ==
    [given |-> where_filter # EmptyDict, where |-> where_filter]

\* the ids of the records a where clause selects
Selected(coll, where) == { id \in DOMAIN coll : Matches(coll[id], where) }

\* the ids the index looks at under a where clause
Candidates(coll, clause) ==
    IF clause.given THEN Selected(coll, clause.where) ELSE DOMAIN coll

\* the subsets of S with n elements
Combinations(S, n) == { T \in SUBSET S : Cardinality(T) = n }

\* the elements of T listed in one fixed order (nothing below depends on
\* the order in which the index lists its hits)
Listed(T) ==
    CHOOSE q \in [1..Cardinality(T) -> T] : \A i, j \in 1..Cardinality(T) : i # j => q[i] # q[j]

MinOf(a, b) == IF a < b THEN a ELSE b

\* the distances the index may report (the metric is not bounded by 1)
Distances == {0, 2}

\* the distance lists of a query result: nearest first
DistanceLists(k) ==
    { dist \in [1..k -> Distances] : \A i, j \in 1..k : i < j => dist[i] <= dist[j] }

\* what search(query, n_results, document_id, filter_dict) may return.
\* kind tells the shape: "get" has flat lists and no distances key, "query"
\* has one inner list per query text, "failed" is the except branch
SearchOutcomes(coll, query, n, d, filter_dict) ==
    LET clause == WhereClause(WhereFilter(d, filter_dict))
        hits  == Candidates(coll, clause)
        k     == MinOf(n, Cardinality(hits))
        failed == [kind |-> "failed", ids |-> <<>>, documents |-> <<>>,
                   metadatas |-> <<>>, distances |-> <<>>]
    IN  IF IsBlank(query)
        THEN { LET q == Listed(T)
               IN  [kind |-> "get", ids |-> q,
                    documents |-> [i \in 1..k |-> coll[q[i]].document],
                    metadatas |-> [i \in 1..k |-> coll[q[i]].metadata],
                    distances |-> <<>>] : T \in Combinations(hits, k) } \cup {failed}
        ELSE { LET q == Listed(pair[1])
               IN  [kind |-> "query", ids |-> <<q>>,
                    documents |-> << [i \in 1..k |-> coll[q[i]].document] >>,
                    metadatas |-> << [i \in 1..k |-> coll[q[i]].metadata] >>,
                    distances |-> << pair[2] >>] :
                  pair \in Combinations(hits, k) \X DistanceLists(k) } \cup {failed}

----------------------------------------------------------------------------
(* The configuration in force *)

Config ==
    [chunk_size |-> chunk_size, chunk_overlap |-> chunk_overlap,
     separator |-> separator, max_chunks |-> max_chunks]

----------------------------------------------------------------------------
(* PDFService *)

MaxDocs == 2
MaxClock == 2

DocIds == 1..MaxDocs

\* process_chunks(document_id, text) at time now: the collection afterwards,
\* the chunk count and the error message ("" stands for None)
ProcessChunks(coll, d, t, now, fails, cfg) ==
    LET meta == [document_id      |-> UuidStr(d),
                 chunking_method  |-> "text_chunker",
                 chunking_size    |-> cfg.chunk_size,
                 chunking_overlap |-> cfg.chunk_overlap,
                 processed_at     |-> now]
        r    == ChunkText(t, UuidStr(d), meta, cfg)
        a    == AddChunks(coll, d, r.chunks, r.chunks_metadata, fails)
    IN  IF r.chunks = <<>>
        THEN [collection |-> coll, count |-> 0, error |-> "No chunks were generated"]
        ELSE IF ~a.success
        THEN [collection |-> coll, count |-> 0,
              error |-> "Failed to store chunks in vector database"]
        ELSE [collection |-> a.collection, count |-> Len(r.chunks), error |-> ""]

\* a row of the documents table
Row(name, t, status, err) ==
    [file_name |-> name, extracted_text |-> t, status |-> status, error_message |-> err]

\* extract_and_save that marks the document FAILED when no chunk was stored
ExtractAndSaveStrict(docs, coll, f, d, now, chunking, fails, cfg) ==
    LET with(row) == [x \in (DOMAIN docs) \cup {d} |-> IF x = d THEN row ELSE docs[x]]
        r == ProcessChunks(coll, d, f.text, now + 1, fails, cfg)
    IN  IF ~f.valid \/ f.text = <<>> \/ (chunking /\ r.error # "")
        THEN [documents |-> with([file_name |-> f.file_name, extracted_text |-> <<>>,
                                  status |-> "FAILED", error_message |-> "failed"]),
              collection |-> coll, clock |-> now, error |-> "failed", stored |-> 0]
        ELSE [documents |-> with([file_name |-> f.file_name, extracted_text |-> f.text,
                                  status |-> "COMPLETED", error_message |-> ""]),
              collection |-> IF chunking THEN r.collection ELSE coll,
              clock |-> IF chunking THEN now + 1 ELSE now,
              error |-> "", stored |-> IF chunking THEN now + 1 ELSE 0]

\* extract_and_save that returns the error of a failed extraction without
\* recording it in the row
ExtractAndSaveLeavesPending(docs, coll, f, d, now, chunking, fails, cfg) ==
    LET with(row) == [x \in (DOMAIN docs) \cup {d} |-> IF x = d THEN row ELSE docs[x]]
        r == ProcessChunks(coll, d, f.text, now + 1, fails, cfg)
    IN  IF ~f.valid \/ f.text = <<>>
        THEN [documents |-> with([file_name |-> f.file_name, extracted_text |-> <<>>,
                                  status |-> "PENDING", error_message |-> ""]),
              collection |-> coll, clock |-> now, error |-> "Invalid PDF file", stored |-> 0]
        ELSE [documents |-> with([file_name |-> f.file_name, extracted_text |-> f.text,
                                  status |-> "COMPLETED", error_message |-> ""]),
              collection |-> IF chunking THEN r.collection ELSE coll,
              clock |-> IF chunking THEN now + 1 ELSE now,
              error |-> "", stored |-> IF chunking /\ r.error = "" THEN now + 1 ELSE 0]

\* extract_and_save(db, file_path, file_name) for a file f, the new row
\* getting id d: the table, the collection and the clock afterwards, the
\* returned error ("" stands for None) and the stamp of a process_chunks
\* call that stored chunks (0: none)
ExtractAndSave(docs, coll, f, d, now, chunking, fails, cfg) ==
    LET with(row) == [x \in (DOMAIN docs) \cup {d} |-> IF x = d THEN row ELSE docs[x]]
        pending == [documents |-> with(Row(f.file_name, <<>>, "PENDING", "")),
                    collection |-> coll, clock |-> now, error |-> "", stored |-> 0]
    IN  IF ~f.valid
        THEN [pending EXCEPT !.documents = with(Row(f.file_name, <<>>, "FAILED", "Invalid PDF file")),
                             !.error = "Invalid PDF file"]
        ELSE IF f.text = <<>>
        THEN [pending EXCEPT !.documents = with(Row(f.file_name, <<>>, "FAILED",
                                                    "Could not extract text from PDF")),
                             !.error = "Could not extract text from PDF"]
        ELSE LET saved == with(Row(f.file_name, f.text, "COMPLETED", ""))
                 r == ProcessChunks(coll, d, f.text, now + 1, fails, cfg)
             IN  IF chunking
                 THEN [documents |-> saved, collection |-> r.collection, clock |-> now + 1,
                       error |-> "", stored |-> IF r.error = "" THEN now + 1 ELSE 0]
                 ELSE [pending EXCEPT !.documents = saved]

----------------------------------------------------------------------------
(* The document routes *)

\* the text of the ingestion scenario: "para1\npara2\npara3"
ParaText ==
    <<"p", "a", "r", "a", "1", "\n", "p", "a", "r", "a", "2", "\n", "p", "a", "r", "a", "3">>

\* the uploaded files: what validate_pdf and extract_text find in them
\* (text <<>>: nothing could be extracted)
Files ==
    { [file_name |-> "para.pdf",  is_pdf |-> TRUE,  valid |-> TRUE,  text |-> ParaText],
      [file_name |-> "scan.pdf",  is_pdf |-> TRUE,  valid |-> TRUE,  text |-> <<>>],
      [file_name |-> "bad.pdf",   is_pdf |-> TRUE,  valid |-> FALSE, text |-> <<>>],
      [file_name |-> "notes.txt", is_pdf |-> FALSE, valid |-> FALSE, text |-> <<>>] }

\* the chunker configurations a process may start with
ServiceConfigs ==
    { [chunk_size |-> 10, chunk_overlap |-> 0, separator |-> <<"\n">>, max_chunks |-> 1000],
      [chunk_size |-> 12, chunk_overlap |-> 5, separator |-> <<"\n">>, max_chunks |-> 1000] }

\* the query strings and limits of the searches explored
Queries == { <<>>, <<" ">>, <<"q">> }
Limits == {1, 2}

\* the answer of a request; the fields a route does not set keep these values
Answer(op, status) ==
    [op |-> op, status |-> status, document_id |-> 0, auto_chunk |-> "none",
     chunks_created |-> 0, success |-> FALSE, results |-> <<>>,
     lookup |-> "none", hit_ids |-> <<>>]

\* the chunk ids a raw result of search lists as hits
HitIds(raw) ==
    IF raw.ids = <<>> THEN <<>>
    ELSE IF raw.kind = "get" THEN raw.ids
    ELSE raw.ids[1]

ServiceAtStart ==
    /\ chroma = Initialize(ChromaDefaults)
    /\ context = NoContext
    /\ documents = <<>>
    /\ collection = <<>>
    /\ clock = 0
    /\ next_uuid = 1
    /\ response = Answer("none", 0)
    /\ ingested = [d \in DocIds |-> 0]

\* UUID(doc_id): the id a string stands for, 0 when it raises ValueError
ParseUuid(str) == IF \E d \in DocIds : UuidStr(d) = str
                  THEN CHOOSE d \in DocIds : UuidStr(d) = str
                  ELSE 0

\* doc_info of a hit ([id |-> 0] stands for None)
DocInfo(docs, chunk_id) ==
    LET doc_id == IF \E i \in 1..Len(chunk_id) : chunk_id[i] = "_"
                  THEN Split(chunk_id, <<"_">>)[1] ELSE <<>>
        uuid   == IF doc_id # <<>> THEN ParseUuid(doc_id) ELSE 0
    IN  IF uuid # 0 /\ uuid \in DOMAIN docs
        THEN [id |-> uuid, file_name |-> docs[uuid].file_name]
        ELSE [id |-> 0, file_name |-> ""]

\* a reshaping that answers an empty raw result with an error
ReshapeRejectsEmpty(raw, docs) ==
    IF raw.ids = <<>> THEN [status |-> 500, results |-> <<>>]
    ELSE IF raw.kind = "get" THEN [status |-> 500, results |-> <<>>]
    ELSE [status |-> 200,
          results |-> [j \in 1..Len(raw.ids[1]) |->
                          [chunk_id |-> raw.ids[1][j],
                           document |-> DocInfo(docs, raw.ids[1][j]),
                           text     |-> raw.documents[1][j],
                           metadata |-> raw.metadatas[1][j],
                           score    |-> 1 - raw.distances[1][j]]]]

\* the result records search_documents builds from a raw result.  On the flat
\* lists of a "get" result the inner loop walks the characters of the first
\* id, and results["metadatas"][0][0] indexes a mapping by 0: the request
\* ends in an unhandled KeyError (status 500)
Reshape(raw, docs) ==
    IF raw.ids = <<>> THEN [status |-> 200, results |-> <<>>]
    ELSE IF raw.kind = "get" THEN [status |-> 500, results |-> <<>>]
    ELSE [status |-> 200,
          results |-> [j \in 1..Len(raw.ids[1]) |->
                          [chunk_id |-> raw.ids[1][j],
                           document |-> DocInfo(docs, raw.ids[1][j]),
                           text     |-> raw.documents[1][j],
                           metadata |-> raw.metadatas[1][j],
                           score    |-> 1 - raw.distances[1][j]]]]

\* the value use_auto_chunk takes in upload_document
UseAutoChunk(param, configured) == IF param # "none" THEN param = "true" ELSE configured

\* POST /documents/upload
UploadDocument(f, param, fails1, fails2) ==
    /\ next_uuid <= MaxDocs
    /\ clock + 2 <= MaxClock
    /\ IF ~f.is_pdf
       THEN /\ response' = Answer("upload", 400)
            /\ UNCHANGED <<documents, collection, clock, next_uuid, ingested>>
       ELSE IF ~f.valid \/ f.text = <<>>
       THEN /\ response' = Answer("upload", 500)
            /\ UNCHANGED <<documents, collection, clock, next_uuid, ingested>>
       ELSE LET d   == next_uuid
                s   == ExtractAndSave(documents, collection, f, d, clock, auto_chunk, fails1, Config)
                use == UseAutoChunk(param, auto_chunk)
                r   == ProcessChunks(s.collection, d, f.text, s.clock + 1, fails2, Config)
            IN  /\ documents' = s.documents
                /\ next_uuid' = next_uuid + 1
                /\ collection' = IF use THEN r.collection ELSE s.collection
                /\ clock' = IF use THEN s.clock + 1 ELSE s.clock
                /\ ingested' = [ingested EXCEPT ![d] =
                                   IF use /\ r.error = "" THEN s.clock + 1 ELSE s.stored]
                /\ response' = [Answer("upload", 200) EXCEPT
                                   !.document_id = d,
                                   !.auto_chunk = param,
                                   !.chunks_created = IF use THEN r.count ELSE 0]
    /\ UNCHANGED <<chunkerVars, otherVars, auto_chunk>>

\* POST /documents/{document_id}/chunk
ProcessDocumentChunks(d, fails) ==
    /\ clock + 1 <= MaxClock
    /\ IF d \notin DOMAIN documents
       THEN /\ response' = [Answer("chunk", 404) EXCEPT !.document_id = d]
            /\ UNCHANGED <<collection, clock, ingested>>
       ELSE IF documents[d].extracted_text = <<>>
       THEN /\ response' = [Answer("chunk", 400) EXCEPT !.document_id = d]
            /\ UNCHANGED <<collection, clock, ingested>>
       ELSE LET r == ProcessChunks(collection, d, documents[d].extracted_text,
                                   clock + 1, fails, Config)
            IN  /\ collection' = r.collection
                /\ clock' = clock + 1
                /\ ingested' = IF r.error = "" THEN [ingested EXCEPT ![d] = clock + 1]
                               ELSE ingested
                /\ response' = [Answer("chunk", IF r.error = "" THEN 200 ELSE 500) EXCEPT
                                   !.document_id = d,
                                   !.chunks_created = r.count]
    /\ UNCHANGED <<chunkerVars, otherVars, auto_chunk, documents, next_uuid>>

\* GET /documents/search
SearchDocuments(query, d, limit) ==
    /\ \E raw \in SearchOutcomes(collection, query, limit, d, EmptyDict) :
          LET r == Reshape(raw, documents)
          IN  response' = [Answer("search", r.status) EXCEPT
                              !.document_id = d,
                              !.results = r.results,
                              !.lookup = raw.kind,
                              !.hit_ids = HitIds(raw)]
    /\ UNCHANGED <<chunkerVars, otherVars, auto_chunk, documents, collection, clock, next_uuid, ingested>>

\* PDFService.delete_document_chunks(document_id)
DeleteDocumentChunks(d, fails) ==
    /\ LET r == DeleteDocument(collection, d, fails)
       IN  /\ collection' = r.collection
           /\ response' = [Answer("delete_chunks", 0) EXCEPT
                              !.document_id = d,
                              !.success = r.success]
    /\ UNCHANGED <<chunkerVars, otherVars, auto_chunk, documents, clock, next_uuid, ingested>>

\* DELETE /documents/{document_id}
DeleteDocumentById(d, fails) ==
    /\ IF d \notin DOMAIN documents
       THEN /\ response' = [Answer("delete", 404) EXCEPT !.document_id = d]
            /\ UNCHANGED <<documents, collection>>
       ELSE LET r == DeleteDocument(collection, d, fails)
            IN  /\ collection' = r.collection
                /\ documents' = [x \in (DOMAIN documents) \ {d} |-> documents[x]]
                /\ response' = [Answer("delete", 200) EXCEPT !.document_id = d]
    /\ UNCHANGED <<chunkerVars, otherVars, auto_chunk, clock, next_uuid, ingested>>

\* the process is started again on the persisted table and collection:
\* TextChunker.__init__ and PDFService.__init__ read the configuration
Restart ==
    /\ \E cfg \in ServiceConfigs :
          /\ chunk_size' = cfg.chunk_size
          /\ chunk_overlap' = cfg.chunk_overlap
          /\ separator' = cfg.separator
          /\ max_chunks' = cfg.max_chunks
    /\ auto_chunk' \in BOOLEAN
    /\ Config' # Config \/ auto_chunk' # auto_chunk
    /\ UNCHANGED <<text, document_id, metadata, splits, idx, chunks, chunks_metadata,
                   current_chunk, current_length, pc>>
    /\ UNCHANGED <<documents, collection, clock, next_uuid, response, ingested, otherVars>>

Init ==
    /\ text = <<>>
    /\ document_id = <<>>
    /\ metadata = EmptyDict
    /\ \E cfg \in ServiceConfigs :
          /\ chunk_size = cfg.chunk_size
          /\ chunk_overlap = cfg.chunk_overlap
          /\ separator = cfg.separator
          /\ max_chunks = cfg.max_chunks
    /\ splits = <<>>
    /\ idx = 0
    /\ chunks = <<>>
    /\ chunks_metadata = <<>>
    /\ current_chunk = <<>>
    /\ current_length = 0
    /\ pc = "idle"
    /\ auto_chunk \in BOOLEAN
    /\ ServiceAtStart

Next ==
    \/ \E f \in Files, param \in {"none", "true", "false"}, fails1, fails2 \in BOOLEAN :
          UploadDocument(f, param, fails1, fails2)
    \/ \E d \in DocIds, fails \in BOOLEAN : ProcessDocumentChunks(d, fails)
    \/ \E query \in Queries, d \in DocIds \cup {0}, limit \in Limits :
          SearchDocuments(query, d, limit)
    \/ \E d \in DocIds, fails \in BOOLEAN : DeleteDocumentChunks(d, fails)
    \/ \E d \in DocIds, fails \in BOOLEAN : DeleteDocumentById(d, fails)
    \/ Restart

Spec == Init /\ [][Next]_vars

----------------------------------------------------------------------------
(* chunk_text step by step *)

LoopState ==
    [chunks |-> chunks, chunks_metadata |-> chunks_metadata,
     current_chunk |-> current_chunk, current_length |-> current_length, brk |-> FALSE]

RECURSIVE JoinPieces(_)
JoinPieces(ps) ==
    IF Len(ps) = 0 THEN <<>>
    ELSE IF Len(ps) = 1 THEN ps[1]
    ELSE ps[1] \o <<"\n">> \o JoinPieces(Tail(ps))

\* the input texts explored
Texts == { JoinPieces(ps) : ps \in UNION { [1..n -> Pieces] : n \in 0..MaxPieces } }

\* the (document_id, metadata) argument pairs explored
CallerArgs ==
    { [document_id |-> <<>>, metadata |-> EmptyDict],
      [document_id |-> <<"u", "1">>,
       metadata |-> [chunking_method |-> "text_chunker"]],
      [document_id |-> <<"u", "1">>,
       metadata |-> [document_id |-> <<"z">>, length |-> 9]] }

InitChunker ==
    /\ text \in Texts
    /\ \E a \in CallerArgs : document_id = a.document_id /\ metadata = a.metadata
    /\ chunk_size \in 1..MaxChunkSize
    /\ chunk_overlap \in 0..MaxOverlap
    /\ separator \in Separators
    /\ max_chunks \in 1..MaxMaxChunks
    /\ splits = <<>>
    /\ idx = 0
    /\ chunks = <<>>
    /\ chunks_metadata = <<>>
    /\ current_chunk = <<>>
    /\ current_length = 0
    /\ pc = "start"
    /\ ServiceAtStart
    /\ auto_chunk = TRUE

inputVars == <<text, document_id, metadata, chunk_size, chunk_overlap, separator, max_chunks,
               serviceVars, otherVars>>

\* "if not text: return [], []"
EmptyText ==
    /\ pc = "start"
    /\ text = <<>>
    /\ pc' = "done"
    /\ UNCHANGED <<inputVars, splits, idx, chunks, chunks_metadata, current_chunk, current_length>>

\* text.split raises ValueError on an empty separator; the except branch
\* returns [], []
SplitRaises ==
    /\ pc = "start"
    /\ text # <<>>
    /\ separator = <<>>
    /\ pc' = "done"
    /\ UNCHANGED <<inputVars, splits, idx, chunks, chunks_metadata, current_chunk, current_length>>

\* normalise the line breaks and split
SplitText ==
    /\ pc = "start"
    /\ text # <<>>
    /\ separator # <<>>
    /\ splits' = Split(NormalizeCRLF(text), separator)
    /\ pc' = "loop"
    /\ UNCHANGED <<inputVars, idx, chunks, chunks_metadata, current_chunk, current_length>>

\* an iteration on a blank split: continue
SkipBlank ==
    /\ pc = "loop"
    /\ idx < Len(splits)
    /\ IsBlank(splits[idx + 1])
    /\ idx' = idx + 1
    /\ UNCHANGED <<inputVars, splits, chunks, chunks_metadata, current_chunk, current_length, pc>>

\* an iteration that looks at the same split again after it closed a chunk
IterateRetries ==
    /\ pc = "loop"
    /\ idx < Len(splits)
    /\ ~IsBlank(splits[idx + 1])
    /\ LET closing == current_length + Len(splits[idx + 1]) > chunk_size /\ current_length > 0
           st == LoopBody(LoopState, splits[idx + 1], Config, metadata, document_id)
       IN  /\ chunks' = st.chunks
           /\ chunks_metadata' = st.chunks_metadata
           /\ current_chunk' = st.current_chunk
           /\ current_length' = st.current_length
           /\ pc' = IF st.brk THEN "flush" ELSE "loop"
           /\ idx' = IF closing THEN idx ELSE idx + 1
    /\ UNCHANGED <<inputVars, splits>>

\* an iteration on a split that is not blank
Iterate ==
    /\ pc = "loop"
    /\ idx < Len(splits)
    /\ ~IsBlank(splits[idx + 1])
    /\ LET st == LoopBody(LoopState, splits[idx + 1], Config, metadata, document_id)
       IN  /\ chunks' = st.chunks
           /\ chunks_metadata' = st.chunks_metadata
           /\ current_chunk' = st.current_chunk
           /\ current_length' = st.current_length
           /\ pc' = IF st.brk THEN "flush" ELSE "loop"
    /\ idx' = idx + 1
    /\ UNCHANGED <<inputVars, splits>>

\* the for loop ran out of splits
LoopEnd ==
    /\ pc = "loop"
    /\ idx = Len(splits)
    /\ pc' = "flush"
    /\ UNCHANGED <<inputVars, splits, idx, chunks, chunks_metadata, current_chunk, current_length>>

\* the last chunk and the return
FlushLast ==
    /\ pc = "flush"
    /\ LET r == Flush(LoopState, Config, metadata, document_id)
       IN  /\ chunks' = r.chunks
           /\ chunks_metadata' = r.chunks_metadata
    /\ pc' = "done"
    /\ UNCHANGED <<inputVars, splits, idx, current_chunk, current_length>>

NextChunker ==
    \/ EmptyText
    \/ SplitRaises
    \/ SplitText
    \/ SkipBlank
    \/ Iterate
    \/ LoopEnd
    \/ FlushLast

SpecChunker == InitChunker /\ [][NextChunker]_vars

\* the inputs explored for termination: fewer texts, every overlap up to and
\* beyond chunk_size
InitTermination ==
    /\ InitChunker
    /\ text \in { JoinPieces(ps) : ps \in UNION { [1..n -> ShortPieces] : n \in 0..MaxShortPieces } }
    /\ document_id = <<>>
    /\ chunk_size <= MaxShortChunkSize

\* the for loop is a sequential program: it does not stop before its return
FairSpecChunker == InitTermination /\ [][NextChunker]_vars /\ WF_vars(NextChunker)

----------------------------------------------------------------------------
(* Reading a result of chunk_text back: segments of the chunks and of the text *)

\* the segments of a returned chunk
Segs(c) == Split(c, separator)

\* the input's non-blank segments in their order
InputSegments ==
    SelectSeq(Split(NormalizeCRLF(text), separator), LAMBDA s : ~IsBlank(s))

\* the number of head segments of chunk i that were seeded from chunk i-1
SeededCount(i) ==
    IF i = 1 THEN 0 ELSE Len(ResetBuffer(Segs(chunks[i - 1]), Config).splits)

\* the segments of chunk i that are not seeded
NewSegs(i) == SubSeq(Segs(chunks[i]), SeededCount(i) + 1, Len(Segs(chunks[i])))

RECURSIVE EmittedFrom(_)
EmittedFrom(i) == IF i > Len(chunks) THEN <<>> ELSE NewSegs(i) \o EmittedFrom(i + 1)

\* the segments of all chunks in chunk order, seeded ones counted once
Emitted == EmittedFrom(1)

IsPrefix(a, b) == Len(a) <= Len(b) /\ SubSeq(b, 1, Len(a)) = a

\* the last k items of a
Suffix(a, k) == SubSeq(a, Len(a) - k + 1, Len(a))

Max(S) == CHOOSE x \in S : \A y \in S : x >= y

\* the length of the longest suffix of a whose joined length fits the overlap
LongestFittingSuffix(a) ==
    Max({ k \in 0..Len(a) : k = 0 \/ Len(Join(Suffix(a, k), separator)) <= chunk_overlap })

Returned == pc = "done"

----------------------------------------------------------------------------
(* C1: chunk_text returns at most max_chunks chunks. *)
C1_AtMostMaxChunks == Returned => Len(chunks) <= max_chunks

----------------------------------------------------------------------------
----------------------------------------------------------------------------
(* C3 as stated: for every non-empty text and every configuration the
   segments of the chunks, seeded ones counted once, are exactly the
   input's non-blank segments in their order. *)
C3_AllSegmentsKept ==
    (Returned /\ text # <<>> /\ separator # <<>>) => Emitted = InputSegments

(* C3 amended: the segments of the chunks, seeded ones counted once, are a
   prefix of the input's non-blank segments in their order, and all of
   them whenever the max_chunks limit was not hit (the result has at most
   max_chunks chunks). *)
C3_SegmentsKeptUpToLimit ==
    (Returned /\ text # <<>> /\ separator # <<>>) =>
        /\ IsPrefix(Emitted, InputSegments)
        /\ (Len(chunks) <= max_chunks => Emitted = InputSegments)

C3_Witness ==
    /\ Returned
    /\ chunk_overlap > 0
    /\ Len(chunks) = 2
    /\ SeededCount(2) > 0
    /\ Len(InputSegments) >= 3
    /\ Emitted = InputSegments

----------------------------------------------------------------------------
(* C4: with chunk_overlap > 0 and at least two chunks, the head segments
   of chunk i+1 are exactly the longest suffix of chunk i's segments whose
   joined length is <= chunk_overlap, followed by at least one more
   segment. *)
C4_OverlapIsLongestFittingSuffix ==
    (Returned /\ chunk_overlap > 0 /\ Len(chunks) >= 2) =>
        \A i \in 1..(Len(chunks) - 1) :
            LET a == Segs(chunks[i])
                b == Segs(chunks[i + 1])
                k == LongestFittingSuffix(a)
            IN  /\ Len(b) > k
                /\ SubSeq(b, 1, k) = Suffix(a, k)
                /\ k = SeededCount(i + 1)

C4_Witness ==
    /\ Returned
    /\ chunk_overlap > 0
    /\ Len(chunks) >= 3
    /\ LongestFittingSuffix(Segs(chunks[1])) = 0
    /\ LongestFittingSuffix(Segs(chunks[2])) >= 1
    /\ Len(Segs(chunks[2])) > LongestFittingSuffix(Segs(chunks[2]))

----------------------------------------------------------------------------
(* C5 as stated: a non-empty text shorter than chunk_size gives exactly
   one chunk (read here for the separators str.split accepts). *)
C5_ShortTextOneChunk ==
    (Returned /\ text # <<>> /\ Len(text) < chunk_size /\ separator # <<>>) => Len(chunks) = 1

(* C5 amended: with a non-empty separator, a non-empty text shorter than
   chunk_size gives exactly one chunk when it has a non-blank segment, and
   no chunk when all its segments are blank. *)
C5_ShortTextOneChunkUnlessBlank ==
    (Returned /\ text # <<>> /\ Len(text) < chunk_size /\ separator # <<>>) =>
        Len(chunks) = (IF InputSegments # <<>> THEN 1 ELSE 0)

C5_Witness ==
    /\ Returned
    /\ separator # <<>>
    /\ Len(text) < chunk_size
    /\ Len(InputSegments) >= 2
    /\ Len(chunks) = 1

----------------------------------------------------------------------------
(* C6: chunk_text terminates, and every iteration of the main loop takes
   exactly one new element of splits, so the loop runs at most Len(splits)
   times, also when chunk_overlap >= chunk_size. *)
C6_Terminates ==
    /\ <>(pc = "done")
    /\ [][(pc = "loop" /\ idx < Len(splits)) => (idx' = idx + 1 /\ idx' <= Len(splits))]_vars

C6_Witness ==
    /\ Returned
    /\ chunk_overlap >= chunk_size
    /\ Len(chunks) >= 2
    /\ SeededCount(2) >= 1
    /\ idx = Len(splits)

----------------------------------------------------------------------------
(* C7 as stated: the chunk that contains a segment longer than chunk_size
   consists of that segment alone. *)
C7_LongSegmentAlone ==
    (Returned /\ separator # <<>>) =>
        \A i \in 1..Len(chunks) :
            (\E j \in 1..Len(Segs(chunks[i])) : Len(Segs(chunks[i])[j]) > chunk_size)
                => Len(Segs(chunks[i])) = 1

(* C7 amended: a segment longer than chunk_size is never split: the chunk
   it is emitted in consists of the segments seeded as overlap from the
   previous chunk followed by that whole segment and nothing else; with
   chunk_overlap = 0 the chunk is that segment alone. *)
C7_LongSegmentOnlyNewSegment ==
    (Returned /\ separator # <<>>) =>
        \A i \in 1..Len(chunks) :
            (\E j \in 1..Len(NewSegs(i)) : Len(NewSegs(i)[j]) > chunk_size) =>
                /\ Len(NewSegs(i)) = 1
                /\ \E n \in 1..Len(InputSegments) : InputSegments[n] = NewSegs(i)[1]
                /\ (chunk_overlap = 0 => chunks[i] = NewSegs(i)[1])

C7_Witness ==
    /\ Returned
    /\ Len(chunks) >= 3
    /\ SeededCount(2) >= 1
    /\ Len(NewSegs(2)) = 1
    /\ Len(NewSegs(2)[1]) > chunk_size

----------------------------------------------------------------------------
(* What the collection holds for a document, and what a search on it finds *)

\* the ids of the records whose metadata names document d
RecordsOf(d) ==
    { id \in DOMAIN collection : collection[id].metadata.document_id = UuidStr(d) }

\* the records the collection holds for document d
StoredFor(d) == [id \in RecordsOf(d) |-> collection[id]]

\* the records an ingestion of document d at time stamp under configuration
\* cfg hands to the collection
IngestedSet(d, stamp, cfg) ==
    LET meta == [document_id      |-> UuidStr(d),
                 chunking_method  |-> "text_chunker",
                 chunking_size    |-> cfg.chunk_size,
                 chunking_overlap |-> cfg.chunk_overlap,
                 processed_at     |-> stamp]
        r    == ChunkText(documents[d].extracted_text, UuidStr(d), meta, cfg)
    IN  [id \in { ChunkId(d, i - 1) : i \in 1..Len(r.chunks) } |->
            LET i == CHOOSE j \in 1..Len(r.chunks) : ChunkId(d, j - 1) = id
            IN  [document |-> r.chunks[i],
                 metadata |-> Update(r.chunks_metadata[i],
                                     [document_id |-> UuidStr(d), chunk_index |-> i - 1])]]

\* the last request ingested document d and answered that chunks were created
IngestionAnswered(d) ==
    /\ response.op \in {"upload", "chunk"}
    /\ response.status = 200
    /\ response.document_id = d
    /\ response.chunks_created > 0

\* every raw result a search restricted to document d may give
SearchesOf(d) ==
    UNION { SearchOutcomes(collection, q, n, d, EmptyDict) : q \in Queries, n \in Limits }

\* every search restricted to document d answers with zero results
NoHits(d) ==
    \A raw \in SearchesOf(d) : Reshape(raw, documents) = [status |-> 200, results |-> <<>>]

\* the last call was delete_document_chunks(d) and it returned True
DeleteSucceeded(d) ==
    /\ response.op = "delete_chunks"
    /\ response.document_id = d
    /\ response.success

----------------------------------------------------------------------------
(* C8: when a request has ingested a document and answered that chunks were
   created, the collection holds for that document exactly the chunk set of
   that latest ingestion (made under one of the configurations) and no
   record of an earlier one. *)
C8_ReingestionReplaces ==
    \A d \in DocIds :
        (IngestionAnswered(d) /\ ingested[d] # 0) =>
            \E cfg \in ServiceConfigs : StoredFor(d) = IngestedSet(d, ingested[d], cfg)

----------------------------------------------------------------------------
(* C9: an upload with auto_chunk = false leaves no chunk of the uploaded
   document in the collection whatever the configuration says, and an
   upload with auto_chunk = true that reports chunks has stored them. *)
C9_AutoChunkParameterOverrides ==
    (response.op = "upload" /\ response.status = 200) =>
        /\ (response.auto_chunk = "false" => RecordsOf(response.document_id) = {})
        /\ ((response.auto_chunk = "true" /\ response.chunks_created > 0)
               => RecordsOf(response.document_id) # {})

----------------------------------------------------------------------------
(* C10: after delete_document_chunks(D) returned True the collection holds
   no record of D, and as long as it holds none (until chunks are added for
   D again) every search restricted to D, with an empty, blank or non-empty
   query, answers with zero results; a first ingestion of
   "para1\npara2\npara3" with chunk_size 10, separator newline and overlap 0
   stores exactly the chunks para1, para2, para3 under indices 0, 1, 2. *)
C10_NoHitsAfterDelete ==
    \A d \in DocIds :
        /\ DeleteSucceeded(d) => RecordsOf(d) = {}
        /\ RecordsOf(d) = {} => NoHits(d)
        /\ ( /\ IngestionAnswered(d)
             /\ documents[d].extracted_text = ParaText
             /\ \A id \in RecordsOf(d) :
                   /\ collection[id].metadata.processed_at = ingested[d]
                   /\ collection[id].metadata.chunking_size = 10
                   /\ collection[id].metadata.chunking_overlap = 0 )
           => /\ response.chunks_created = 3
              /\ RecordsOf(d) = { ChunkId(d, 0), ChunkId(d, 1), ChunkId(d, 2) }
              /\ \A i \in 0..2 :
                    /\ collection[ChunkId(d, i)].document = <<"p", "a", "r", "a", Digits[i + 2]>>
                    /\ collection[ChunkId(d, i)].metadata.chunk_index = i

C10_Witness ==
    \E d \in DocIds :
        /\ DeleteSucceeded(d)
        /\ ingested[d] # 0
        /\ d \in DOMAIN documents
        /\ documents[d].extracted_text = ParaText
        /\ NoHits(d)
        /\ \E e \in DocIds : e # d /\ ~NoHits(e)
        /\ \E e \in DocIds :
              /\ e # d
              /\ RecordsOf(e) = { ChunkId(e, 0), ChunkId(e, 1), ChunkId(e, 2) }
              /\ collection[ChunkId(e, 2)].document = <<"p", "a", "r", "a", "3">>

----------------------------------------------------------------------------
(* ChromaService called directly: add_chunks, delete_document and search
   with the arguments a caller may pass *)

MaxStoreChunks == 2

\* the chunk texts and chunk lists handed to add_chunks
StoreTexts == { <<"x">>, <<"y">> }
ChunkLists == UNION { [1..n -> StoreTexts] : n \in 0..MaxStoreChunks }

\* the metadata entry a caller supplies: it names another document and
\* another position, and has a key of its own
CallerMetadata ==
    { [document_id |-> <<"z">>, chunk_index |-> 7, tag |-> "t"] }

\* the metadatas argument: None (<<>>) or a list, of any length
MetadataLists == UNION { [1..n -> CallerMetadata] : n \in 0..MaxStoreChunks }

\* the filter_dict argument of search (EmptyDict: None)
Filters ==
    { EmptyDict,
      [tag |-> "t"],
      [document_id |-> UuidStr(1)],
      [document_id |-> UuidStr(2), tag |-> "t"] }

\* the query strings and the limit of the direct searches
StoreQueries == { <<" ">>, <<"q">> }
StoreLimits == { MaxStoreChunks }

\* what a caller of search can tell of a raw result: whether the lookup
\* failed, and the chunk ids it lists
Seen(raw) == [failed |-> raw.kind = "failed", ids |-> HitIds(raw)]

\* what the last call of a ChromaService method was given and returned;
\* before is the collection the call found
StoreAnswer(op, d) ==
    [op |-> op, document_id |-> d, chunks |-> <<>>, metadatas |-> <<>>,
     raised |-> FALSE, success |-> FALSE, before |-> collection,
     query |-> <<>>, n_results |-> 0, filter_dict |-> EmptyDict,
     clause |-> WhereClause(EmptyDict), ids |-> <<>>]

InitStore ==
    /\ text = <<>>
    /\ document_id = <<>>
    /\ metadata = EmptyDict
    /\ chunk_size = 1
    /\ chunk_overlap = 0
    /\ separator = <<"\n">>
    /\ max_chunks = 1
    /\ splits = <<>>
    /\ idx = 0
    /\ chunks = <<>>
    /\ chunks_metadata = <<>>
    /\ current_chunk = <<>>
    /\ current_length = 0
    /\ pc = "idle"
    /\ auto_chunk = TRUE
    /\ documents = <<>>
    /\ collection = <<>>
    /\ clock = 0
    /\ next_uuid = 1
    /\ ingested = [d \in DocIds |-> 0]
    /\ chroma = Initialize(ChromaDefaults)
    /\ context = NoContext
    /\ response = StoreAnswer("none", 0)

storeFrame == <<chunkerVars, otherVars, auto_chunk, documents, clock, next_uuid, ingested>>

\* ChromaService.add_chunks(document_id, chunks, metadatas)
StoreAdd(d, chunkList, metadatas, fails) ==
    /\ LET r == AddChunks(collection, d, chunkList, metadatas, fails)
       IN  /\ collection' = r.collection
           /\ response' = [StoreAnswer("add", d) EXCEPT
                              !.chunks = chunkList,
                              !.metadatas = metadatas,
                              !.raised = (chunkList # <<>>) /\ ~r.success,
                              !.success = r.success]
    /\ UNCHANGED storeFrame

\* ChromaService.delete_document(document_id)
StoreDelete(d, fails) ==
    /\ LET r == DeleteDocument(collection, d, fails)
       IN  /\ collection' = r.collection
           /\ response' = [StoreAnswer("delete", d) EXCEPT
                              !.raised = fails,
                              !.success = r.success]
    /\ UNCHANGED storeFrame

\* ChromaService.search(query, n_results, document_id, filter_dict)
StoreSearch(query, n, d, filter_dict) ==
    /\ \E seen \in { Seen(raw) : raw \in SearchOutcomes(collection, query, n, d, filter_dict) } :
          response' = [StoreAnswer("search", d) EXCEPT
                          !.query = query,
                          !.n_results = n,
                          !.filter_dict = filter_dict,
                          !.raised = seen.failed,
                          !.success = ~seen.failed,
                          !.clause = WhereClause(WhereFilter(d, filter_dict)),
                          !.ids = seen.ids]
    /\ UNCHANGED collection
    /\ UNCHANGED storeFrame

NextStore ==
    \/ \E d \in DocIds, chunkList \in ChunkLists, metadatas \in MetadataLists, fails \in BOOLEAN :
          StoreAdd(d, chunkList, metadatas, fails)
    \/ \E d \in DocIds, fails \in BOOLEAN : StoreDelete(d, fails)
    \/ \E query \in StoreQueries, n \in StoreLimits, d \in DocIds \cup {0}, filter_dict \in Filters :
          StoreSearch(query, n, d, filter_dict)

SpecStore == InitStore /\ [][NextStore]_vars

----------------------------------------------------------------------------
(* What a collection holds for a document *)

\* the ids of the records of coll whose metadata names document d
StoreRecordsOf(coll, d) ==
    { id \in DOMAIN coll : coll[id].metadata.document_id = UuidStr(d) }

\* the id the metadata of a record spell: "<document_id>_<chunk_index>"
IdOfMetadata(rec) ==
    rec.metadata.document_id \o <<"_">> \o IntStr(rec.metadata.chunk_index)

----------------------------------------------------------------------------
(* C11: after delete_document(D) returned True no record whose metadata
   document_id is str(D) remains, and the collection holds exactly the
   records it held before for every other document, each with the same id,
   text and metadata. *)
C11_DeleteRemovesExactly ==
    (response.op = "delete" /\ response.success) =>
        /\ StoreRecordsOf(collection, response.document_id) = {}
        /\ DOMAIN collection =
              (DOMAIN response.before) \ StoreRecordsOf(response.before, response.document_id)
        /\ \A id \in DOMAIN collection : collection[id] = response.before[id]

C11_Witness ==
    /\ response.op = "delete"
    /\ response.success
    /\ Cardinality(StoreRecordsOf(response.before, response.document_id)) = MaxStoreChunks
    /\ Cardinality(DOMAIN collection) = MaxStoreChunks
    /\ \E id \in DOMAIN collection : "tag" \in DOMAIN collection[id].metadata

----------------------------------------------------------------------------
(* C12: delete_document for a document that has no record in the collection
   returns True (the index being available) and leaves the collection as it
   was; and after any successful delete_document a second call for the same
   document returns True and changes nothing. *)
C12_DeleteIdempotent ==
    /\ ( /\ response.op = "delete"
         /\ ~response.raised
         /\ StoreRecordsOf(response.before, response.document_id) = {} )
       => (response.success /\ collection = response.before)
    /\ (response.op = "delete" /\ response.success)
       => DeleteDocument(collection, response.document_id, FALSE)
             = [collection |-> collection, success |-> TRUE]

C12_Witness ==
    /\ response.op = "delete"
    /\ response.success
    /\ StoreRecordsOf(response.before, response.document_id) = {}
    /\ collection # <<>>
    /\ collection = response.before

----------------------------------------------------------------------------
(* C13: add_chunks(document_id, []) returns False and the collection holds
   the same records after the call as before, whatever metadatas are given. *)
C13_AddEmptyRejected ==
    (response.op = "add" /\ response.chunks = <<>>) =>
        /\ ~response.success
        /\ collection = response.before

C13_Witness ==
    /\ response.op = "add"
    /\ response.chunks = <<>>
    /\ response.metadatas # <<>>
    /\ ~response.success
    /\ collection # <<>>

----------------------------------------------------------------------------
(* C14: every record of the collection has the id its metadata spell,
   "<document_id>_<chunk_index>"; no two records share a (document_id,
   chunk_index) pair; and the records a successful add_chunks(D, chunks,
   metadatas) leaves under D's chunk ids carry document_id = str(D) and
   chunk_index = position, whatever the caller's metadata said. *)
C14_ChunkIdMatchesMetadata ==
    /\ \A id \in DOMAIN collection : id = IdOfMetadata(collection[id])
    /\ \A a, b \in DOMAIN collection :
          ( /\ collection[a].metadata.document_id = collection[b].metadata.document_id
            /\ collection[a].metadata.chunk_index = collection[b].metadata.chunk_index )
          => a = b
    /\ (response.op = "add" /\ response.success) =>
          \A i \in 1..Len(response.chunks) :
              \E id \in DOMAIN collection :
                  /\ collection[id].metadata.document_id = UuidStr(response.document_id)
                  /\ collection[id].metadata.chunk_index = i - 1

C14_Witness ==
    /\ response.op = "add"
    /\ response.success
    /\ Len(response.chunks) = MaxStoreChunks
    /\ Len(response.metadatas) = MaxStoreChunks
    /\ \A i \in 1..MaxStoreChunks : response.metadatas[i].document_id = <<"z">>
    /\ response.before = <<>>
    /\ \A id \in DOMAIN collection : "tag" \in DOMAIN collection[id].metadata

----------------------------------------------------------------------------
(* C19: add_chunks returns False and writes nothing when the index write or
   the embedding fails, and when it returns True every chunk of the call is
   in the collection under its id, with the text and the metadata of the
   call. *)
C19_AddTrueOnlyWhenWritten ==
    /\ (response.op = "add" /\ response.raised) =>
          (~response.success /\ collection = response.before)
    /\ (response.op = "add" /\ response.success) =>
          \A i \in 1..Len(response.chunks) :
              LET id == UuidStr(response.document_id) \o <<"_">> \o IntStr(i - 1)
              IN  /\ id \in DOMAIN collection
                  /\ collection[id].document = response.chunks[i]
                  /\ collection[id].metadata =
                        PrepareMetadatas(response.document_id, response.chunks,
                                         response.metadatas)[i]

----------------------------------------------------------------------------
(* C20: in a search with a document_id the where clause handed to the index
   has document_id = str(document_id), also when filter_dict names another
   document, and has every other key of filter_dict with its value and no
   further key, so every listed hit is a record of that document that
   satisfies the other keys; with neither a document_id nor a filter_dict no
   where clause is handed to the index. *)
C20_FilterMerge ==
    response.op = "search" =>
        /\ response.document_id # 0 =>
              /\ response.clause.given
              /\ DOMAIN response.clause.where = (DOMAIN response.filter_dict) \cup {"document_id"}
              /\ response.clause.where.document_id = UuidStr(response.document_id)
              /\ \A k \in (DOMAIN response.filter_dict) \ {"document_id"} :
                    response.clause.where[k] = response.filter_dict[k]
              /\ \A i \in 1..Len(response.ids) :
                    LET rec == collection[response.ids[i]]
                    IN  /\ rec.metadata.document_id = UuidStr(response.document_id)
                        /\ \A k \in (DOMAIN response.filter_dict) \ {"document_id"} :
                              k \in DOMAIN rec.metadata /\ rec.metadata[k] = response.filter_dict[k]
        /\ (response.document_id = 0 /\ response.filter_dict = EmptyDict) =>
              /\ ~response.clause.given
              /\ ~response.raised =>
                    Len(response.ids) = MinOf(response.n_results, Cardinality(DOMAIN collection))

C20_Witness ==
    /\ response.op = "search"
    /\ response.document_id = 1
    /\ response.filter_dict = [document_id |-> UuidStr(2), tag |-> "t"]
    /\ Len(response.ids) = 1
    /\ StoreRecordsOf(collection, 2) # {}
    /\ Cardinality(StoreRecordsOf(collection, 1)) = MaxStoreChunks

----------------------------------------------------------------------------
(* The answers of GET /documents/search *)

\* the last request was a search whose lookup took the given branch
Searched(kind) == response.op = "search" /\ response.lookup = kind

----------------------------------------------------------------------------
(* C15: a search with an empty or blank query restricted to document X
   lists only chunks whose metadata document_id is str(X), and the endpoint
   answers with one result per listed chunk, each of that document and with
   score 0. *)
C15_BlankQueryScoreZero ==
    (Searched("get") /\ response.document_id # 0) =>
        /\ \A i \in 1..Len(response.hit_ids) :
              collection[response.hit_ids[i]].metadata.document_id
                 = UuidStr(response.document_id)
        /\ response.status = 200
        /\ Len(response.results) = Len(response.hit_ids)
        /\ \A j \in 1..Len(response.results) :
              /\ response.results[j].metadata.document_id = UuidStr(response.document_id)
              /\ response.results[j].score = 0

----------------------------------------------------------------------------
(* C16: every result record the search endpoint answers with has a score of
   at least 0 and at most 1. *)
C16_ScoreWithinUnitInterval ==
    response.op = "search" =>
        \A j \in 1..Len(response.results) :
            response.results[j].score >= 0 /\ response.results[j].score <= 1

----------------------------------------------------------------------------
(* C17: whatever raw result the lookup gave (similarity query, metadata-only
   fetch or failure fallback) the search endpoint answers without an error,
   with exactly one result record per listed hit, in order, whose chunk_id
   is the id of that hit. *)
C17_ReshapeOneRecordPerHit ==
    response.op = "search" =>
        /\ response.status = 200
        /\ Len(response.results) = Len(response.hit_ids)
        /\ \A j \in 1..Len(response.hit_ids) :
              response.results[j].chunk_id = response.hit_ids[j]

----------------------------------------------------------------------------
(* C18: when the index lookup of a search fails, the search endpoint answers
   with status 200 and zero results, whatever the collection holds. *)
C18_FailedLookupGivesNoResults ==
    Searched("failed") =>
        /\ response.status = 200
        /\ response.hit_ids = <<>>
        /\ Len(response.results) = 0

C18_Witness ==
    /\ Searched("failed")
    /\ response.status = 200
    /\ response.results = <<>>
    /\ response.document_id # 0
    /\ RecordsOf(response.document_id) # {}

----------------------------------------------------------------------------
(* C25: in every metadata entry chunk_text returns, length is the length of
   the chunk, whatever base metadata the caller passes, and document_id is
   the document_id argument when one is given, also when the base metadata
   carries another document_id. *)
C25_LengthAndDocumentId ==
    Returned =>
        \A i \in 1..Len(chunks_metadata) :
            /\ chunks_metadata[i]["length"] = Len(chunks[i])
            /\ document_id # <<>> => chunks_metadata[i]["document_id"] = document_id

(* C25 amended: length is the length of the chunk unless the base metadata
   has a length key of its own, which then replaces it; document_id is the
   document_id argument when one is given, also when the base metadata
   carries another document_id, and otherwise the entry has a document_id
   only if the base metadata has one. *)
C25_LengthUnlessCallerHasLength ==
    Returned =>
        \A i \in 1..Len(chunks_metadata) :
            /\ chunks_metadata[i]["length"] =
                  IF "length" \in DOMAIN metadata THEN metadata["length"] ELSE Len(chunks[i])
            /\ document_id # <<>> => chunks_metadata[i]["document_id"] = document_id
            /\ document_id = <<>> =>
                  ("document_id" \in DOMAIN chunks_metadata[i]) = ("document_id" \in DOMAIN metadata)

C25_Witness ==
    /\ Returned
    /\ Len(chunks) >= 2
    /\ "length" \in DOMAIN metadata
    /\ "document_id" \in DOMAIN metadata
    /\ metadata["document_id"] # document_id
    /\ chunks_metadata[2]["document_id"] = document_id
    /\ chunks_metadata[2]["length"] # Len(chunks[2])

----------------------------------------------------------------------------
(* C26: chunk_text on the empty text returns no chunk and no metadata, and
   so does it on a text all of whose characters are whitespace (separators
   and whitespace-only segments). *)
C26_EmptyAndBlankGiveNothing ==
    (Returned /\ \A i \in 1..Len(text) : text[i] \in Whitespace) =>
        (chunks = <<>> /\ chunks_metadata = <<>>)

C26_Witness ==
    /\ Returned
    /\ separator # <<>>
    /\ Len(splits) >= 3
    /\ \E i \in 1..Len(splits) : splits[i] # <<>>
    /\ \A i \in 1..Len(text) : text[i] \in Whitespace
    /\ chunks = <<>>

----------------------------------------------------------------------------
(* C27: every chunk chunk_text returns has length at most chunk_size or
   consists of exactly one segment. *)
C27_ChunkFitsOrSingleSegment ==
    (Returned /\ separator # <<>>) =>
        \A i \in 1..Len(chunks) :
            Len(chunks[i]) <= chunk_size \/ Len(Segs(chunks[i])) = 1

(* C27 amended: every chunk has length at most chunk_size, or consists of
   the segments seeded as overlap from the previous chunk (their joined
   length at most chunk_overlap) followed by exactly one new segment; with
   chunk_overlap = 0 every chunk has length at most chunk_size or is a
   single segment. *)
C27_ChunkFitsOrOneNewSegment ==
    (Returned /\ separator # <<>>) =>
        \A i \in 1..Len(chunks) :
            /\ Len(chunks[i]) <= chunk_size \/ Len(NewSegs(i)) = 1
            /\ SeededCount(i) > 0 =>
                  Len(Join(SubSeq(Segs(chunks[i]), 1, SeededCount(i)), separator)) <= chunk_overlap
            /\ chunk_overlap = 0 =>
                  (Len(chunks[i]) <= chunk_size \/ Len(Segs(chunks[i])) = 1)

C27_Witness ==
    /\ Returned
    /\ Len(chunks) >= 2
    /\ SeededCount(2) >= 1
    /\ Len(NewSegs(2)) = 1
    /\ Len(NewSegs(2)[1]) <= chunk_size
    /\ Len(chunks[2]) > chunk_size

----------------------------------------------------------------------------
(* create_chunk_with_context applied to the arguments a caller may pass *)

MaxSourceLen == 4
MaxChunkLen == 2
MaxWindow == 2

ContextChars == {"a", "b"}

SourceTexts == UNION { [1..n -> ContextChars] : n \in 0..MaxSourceLen }
ChunkTexts == UNION { [1..n -> ContextChars] : n \in 0..MaxChunkLen }

\* the window_size argument: an integer (a negative one is not rejected),
\* or None, for which the configured context_window_size is read
WindowArgs ==
    { [given |-> TRUE, window_size |-> w, context_window_size |-> MaxWindow] : w \in -1..MaxWindow }
    \cup { [given |-> FALSE, window_size |-> 0, context_window_size |-> 1] }

\* the idle values of what the calls modelled here leave alone
Quiet ==
    /\ text = <<>>
    /\ document_id = <<>>
    /\ metadata = EmptyDict
    /\ chunk_size = 1
    /\ chunk_overlap = 0
    /\ separator = <<"\n">>
    /\ max_chunks = 1
    /\ splits = <<>>
    /\ idx = 0
    /\ chunks = <<>>
    /\ chunks_metadata = <<>>
    /\ current_chunk = <<>>
    /\ current_length = 0
    /\ pc = "idle"
    /\ auto_chunk = TRUE
    /\ documents = <<>>
    /\ collection = <<>>
    /\ clock = 0
    /\ next_uuid = 1
    /\ ingested = [d \in DocIds |-> 0]
    /\ chroma = Initialize(ChromaDefaults)
    /\ response = Answer("none", 0)

InitContext ==
    /\ Quiet
    /\ \E c \in ChunkTexts, src \in SourceTexts, w \in WindowArgs :
          context = [chunk_text |-> c, source_text |-> src, window_given |-> w.given,
                     window_size |-> w.window_size,
                     context_window_size |-> w.context_window_size,
                     result |-> <<>>, pc |-> "call"]

\* the call runs and returns
ContextReturns ==
    /\ context.pc = "call"
    /\ context' = [context EXCEPT
                      !.result = CreateChunkWithContext(context.chunk_text, context.source_text,
                                                        context.window_given, context.window_size,
                                                        context.context_window_size),
                      !.pc = "done"]
    /\ UNCHANGED <<chunkerVars, serviceVars, chroma>>

NextContext == ContextReturns

SpecContext == InitContext /\ [][NextContext]_vars

----------------------------------------------------------------------------
(* What a call of create_chunk_with_context was given *)

\* the window in force: the argument, or the configured size for None
Window == IF context.window_given THEN context.window_size ELSE context.context_window_size

\* chunk occurs in s
Contains(s, chunk) == Find(s, chunk) # -1

\* the characters of s from position a up to, not including, position b
Substring(s, a, b) == IF a >= b THEN <<>> ELSE SubSeq(s, a + 1, b)

\* source_text[max(0, s - window) : min(len(source_text), e + window)] for
\* the first occurrence [s, e) of chunk_text
Expanded ==
    LET st == Find(context.source_text, context.chunk_text)
        e  == st + Len(context.chunk_text)
        lo == IF st - Window > 0 THEN st - Window ELSE 0
        hi == IF e + Window < Len(context.source_text) THEN e + Window
              ELSE Len(context.source_text)
    IN  Substring(context.source_text, lo, hi)

----------------------------------------------------------------------------
(* C24: when chunk_text occurs in source_text the call returns the
   substring from window_size characters before the first occurrence to
   window_size characters after it, clamped to the source, which contains
   chunk_text and is at most len(chunk_text) + 2 * window_size long; when
   chunk_text does not occur it returns chunk_text. *)
C24_ExpandWithContext ==
    context.pc = "done" =>
        IF Contains(context.source_text, context.chunk_text)
        THEN /\ context.result = Expanded
             /\ Contains(context.result, context.chunk_text)
             /\ Len(context.result) <= Len(context.chunk_text) + 2 * Window
        ELSE context.result = context.chunk_text

(* C24 amended: the same for every window_size >= 0 (None standing for the
   configured size); when chunk_text does not occur the call returns
   chunk_text whatever the window; for a negative window_size the result is
   still a piece of source_text but need not contain chunk_text. *)
C24_ExpandWithNonNegativeWindow ==
    context.pc = "done" =>
        IF Contains(context.source_text, context.chunk_text)
        THEN /\ Window >= 0 =>
                   /\ context.result = Expanded
                   /\ Contains(context.result, context.chunk_text)
                   /\ Len(context.result) <= Len(context.chunk_text) + 2 * Window
             /\ Contains(context.source_text, context.result)
        ELSE context.result = context.chunk_text

C24_Witness ==
    /\ context.pc = "done"
    /\ Window = 1
    /\ Len(context.chunk_text) = MaxChunkLen
    /\ Find(context.source_text, context.chunk_text) = 1
    /\ Len(context.result) = Len(context.chunk_text) + 2
    /\ context.result # context.chunk_text

----------------------------------------------------------------------------
(* PDFService and ChromaService called directly: extract_and_save (the row
   is created first, then the call runs to its return), process_chunks,
   delete_document_chunks, search and get_collection_stats *)

\* the chunker configurations of these runs; with the empty separator
\* str.split raises inside chunk_text and no chunk is produced
IngestConfigs ==
    { [chunk_size |-> 10, chunk_overlap |-> 0, separator |-> <<"\n">>, max_chunks |-> 1000],
      [chunk_size |-> 10, chunk_overlap |-> 0, separator |-> <<>>, max_chunks |-> 1000] }

NoFile == [file_name |-> "", is_pdf |-> FALSE, valid |-> FALSE, text |-> <<>>]

\* what the last call was given and returned; before is the collection the
\* call found
IngestAnswer(op, d) ==
    [op |-> op, document_id |-> d, file |-> NoFile, error |-> "", stored |-> 0,
     count |-> 0, raised |-> FALSE, stats |-> EmptyDict, before |-> collection]

InitIngest ==
    /\ text = <<>>
    /\ document_id = <<>>
    /\ metadata = EmptyDict
    /\ \E cfg \in IngestConfigs :
          /\ chunk_size = cfg.chunk_size
          /\ chunk_overlap = cfg.chunk_overlap
          /\ separator = cfg.separator
          /\ max_chunks = cfg.max_chunks
    /\ splits = <<>>
    /\ idx = 0
    /\ chunks = <<>>
    /\ chunks_metadata = <<>>
    /\ current_chunk = <<>>
    /\ current_length = 0
    /\ pc = "idle"
    /\ auto_chunk \in BOOLEAN
    /\ documents = <<>>
    /\ collection = <<>>
    /\ clock = 0
    /\ next_uuid = 1
    /\ ingested = [d \in DocIds |-> 0]
    /\ \E settings \in ChromaSettings : chroma = Initialize(settings)
    /\ context = NoContext
    /\ response = IngestAnswer("none", 0)

ingestFrame == <<chunkerVars, context, chroma, auto_chunk, ingested>>

\* an extract_and_save call has created its row and has not returned yet
InFlight == response.op = "create_document"

\* extract_and_save, first step: create_document commits a PENDING row
CreateDocument(f) ==
    /\ ~InFlight
    /\ next_uuid <= MaxDocs
    /\ clock + 1 <= MaxClock
    /\ documents' = [x \in (DOMAIN documents) \cup {next_uuid} |->
                        IF x = next_uuid THEN Row(f.file_name, <<>>, "PENDING", "")
                        ELSE documents[x]]
    /\ next_uuid' = next_uuid + 1
    /\ response' = [IngestAnswer("create_document", next_uuid) EXCEPT !.file = f]
    /\ UNCHANGED <<collection, clock>>
    /\ UNCHANGED ingestFrame

\* extract_and_save, the rest: validation, extraction, the row's update,
\* the chunking when auto_chunk is set, and the return
ExtractAndSaveReturns(fails) ==
    /\ InFlight
    /\ LET d == response.document_id
           r == ExtractAndSave(documents, collection, response.file, d, clock, auto_chunk,
                               fails, Config)
       IN  /\ documents' = r.documents
           /\ collection' = r.collection
           /\ clock' = r.clock
           /\ response' = [IngestAnswer("extract_and_save", d) EXCEPT
                              !.file = response.file,
                              !.error = r.error,
                              !.raised = fails,
                              !.stored = r.stored]
    /\ UNCHANGED next_uuid
    /\ UNCHANGED ingestFrame

\* process_chunks(document_id, document.extracted_text)
IngestProcessChunks(d, fails) ==
    /\ ~InFlight
    /\ d \in DOMAIN documents
    /\ documents[d].extracted_text # <<>>
    /\ clock + 1 <= MaxClock
    /\ LET r == ProcessChunks(collection, d, documents[d].extracted_text, clock + 1, fails, Config)
       IN  /\ collection' = r.collection
           /\ response' = [IngestAnswer("process_chunks", d) EXCEPT
                              !.error = r.error,
                              !.raised = fails,
                              !.count = r.count]
    /\ clock' = clock + 1
    /\ UNCHANGED <<documents, next_uuid>>
    /\ UNCHANGED ingestFrame

\* delete_document_chunks(document_id)
IngestDeleteChunks(d, fails) ==
    /\ ~InFlight
    /\ LET r == DeleteDocument(collection, d, fails)
       IN  /\ collection' = r.collection
           /\ response' = [IngestAnswer("delete_chunks", d) EXCEPT
                              !.raised = fails,
                              !.error = IF r.success THEN "" ELSE "delete failed"]
    /\ UNCHANGED <<documents, clock, next_uuid>>
    /\ UNCHANGED ingestFrame

\* search(query, n_results, document_id): count is the number of hits
IngestSearch(d) ==
    /\ ~InFlight
    /\ \E n \in { Len(HitIds(raw)) : raw \in SearchOutcomes(collection, <<"q">>, 1, d, EmptyDict) } :
          response' = [IngestAnswer("search", d) EXCEPT !.count = n]
    /\ UNCHANGED <<documents, collection, clock, next_uuid>>
    /\ UNCHANGED ingestFrame

\* get_collection_stats()
IngestStats(fails) ==
    /\ ~InFlight
    /\ response' = [IngestAnswer("stats", 0) EXCEPT
                       !.raised = fails,
                       !.stats = GetCollectionStats(chroma, collection, fails)]
    /\ UNCHANGED <<documents, collection, clock, next_uuid>>
    /\ UNCHANGED ingestFrame

NextIngest ==
    \/ \E f \in Files : CreateDocument(f)
    \/ \E fails \in BOOLEAN : ExtractAndSaveReturns(fails)
    \/ \E d \in DocIds, fails \in BOOLEAN : IngestProcessChunks(d, fails)
    \/ \E d \in DocIds, fails \in BOOLEAN : IngestDeleteChunks(d, fails)
    \/ \E d \in DocIds : IngestSearch(d)
    \/ \E fails \in BOOLEAN : IngestStats(fails)

SpecIngest == InitIngest /\ [][NextIngest]_vars

----------------------------------------------------------------------------
(* What an extract_and_save call returned *)

\* the last call was extract_and_save and it has returned
ExtractReturned == response.op = "extract_and_save"

\* text extraction succeeded in that call
Extracted == response.file.valid /\ response.file.text # <<>>

\* the keys of the record get_collection_stats returns
StatsKeys == {"collection_name", "document_chunks_count", "embedding_function", "embedding_model"}

----------------------------------------------------------------------------
(* C21: whenever text extraction succeeded, extract_and_save returns no
   error and leaves the document COMPLETED with the extracted text and no
   error message, whether or not chunks were produced and stored. *)
C21_ChunkingIsBestEffort ==
    (ExtractReturned /\ Extracted) =>
        /\ response.error = ""
        /\ documents[response.document_id].status = "COMPLETED"
        /\ documents[response.document_id].extracted_text = response.file.text
        /\ documents[response.document_id].error_message = ""

C21_Witness ==
    /\ ExtractReturned
    /\ Extracted
    /\ auto_chunk
    /\ response.stored = 0
    /\ StoreRecordsOf(collection, response.document_id) = {}
    /\ documents[response.document_id].status = "COMPLETED"

----------------------------------------------------------------------------
(* C22: get_collection_stats always returns a record with the collection
   name, the chunk count, the embedding function name and the embedding
   model name, the count being the number of records the collection holds,
   and leaves the collection as it was. *)
C22_StatsAlwaysAvailable ==
    response.op = "stats" =>
        /\ DOMAIN response.stats = StatsKeys
        /\ response.stats["document_chunks_count"] = Cardinality(DOMAIN collection)
        /\ collection = response.before

(* C22 amended: when collection.count() answers, the record has the four
   fields, the count is the number of records the collection holds (0 on an
   empty one), the function name is the service's and the model is the one
   of that function; when it raises, the record has only an error field; in
   both cases the collection is left as it was. *)
C22_StatsWhenIndexAnswers ==
    response.op = "stats" =>
        /\ collection = response.before
        /\ ~response.raised =>
              /\ DOMAIN response.stats = StatsKeys
              /\ response.stats["collection_name"] = chroma.collection_name
              /\ response.stats["document_chunks_count"] = Cardinality(DOMAIN collection)
              /\ response.stats["embedding_function"] = chroma.embedding_function_name
              /\ response.stats["embedding_model"] = chroma.embedding_function.model
        /\ response.raised => DOMAIN response.stats = {"error"}

C22_Witness ==
    /\ response.op = "stats"
    /\ ~response.raised
    /\ response.stats["document_chunks_count"] = 6
    /\ Cardinality(DOMAIN collection) = 6

----------------------------------------------------------------------------
(* C23: the service always has an embedding function; when openai is
   configured and no API key is found it has the sentence-transformer
   function with the local model and its function name is
   sentence_transformer, and get_collection_stats then reports that name
   with the local model. *)
C23_FallbackToLocalEmbedding ==
    /\ chroma.embedding_function.kind # "unset"
    /\ (chroma.configured = "openai" /\ ~chroma.has_api_key) =>
          /\ chroma.embedding_function =
                [kind |-> "sentence_transformer", model |-> chroma.embedding_model]
          /\ chroma.embedding_function_name = "sentence_transformer"
          /\ (response.op = "stats" /\ ~response.raised) =>
                /\ response.stats["embedding_function"] = "sentence_transformer"
                /\ response.stats["embedding_model"] = chroma.embedding_model

C23_Witness ==
    /\ chroma.configured = "openai"
    /\ ~chroma.has_api_key
    /\ response.op = "stats"
    /\ ~response.raised
    /\ response.stats["embedding_function"] = "sentence_transformer"
    /\ response.stats["embedding_model"] = "all-MiniLM-L6-v2"

----------------------------------------------------------------------------
(* C30: a row is PENDING only while its extract_and_save call is under way;
   when the call returns the row is COMPLETED with a non-empty
   extracted_text exactly if the returned error is None, and otherwise
   FAILED with the returned error as error_message; status PROCESSING is
   never reached; and the only change of a row's status any step makes is
   from PENDING to COMPLETED or FAILED. *)
C30_StatusLifecycle ==
    /\ [](/\ \A d \in DOMAIN documents :
                /\ documents[d].status \in {"PENDING", "COMPLETED", "FAILED"}
                /\ documents[d].status = "PENDING" => (InFlight /\ response.document_id = d)
          /\ ExtractReturned =>
                LET row == documents[response.document_id]
                IN  /\ (response.error = "") =
                          (row.status = "COMPLETED" /\ row.extracted_text # <<>>)
                    /\ response.error # "" =>
                          (row.status = "FAILED" /\ row.error_message = response.error))
    /\ [][\A d \in DOMAIN documents :
             /\ d \in DOMAIN documents'
             /\ documents'[d].status # documents[d].status =>
                   /\ documents[d].status = "PENDING"
                   /\ documents'[d].status \in {"COMPLETED", "FAILED"}]_vars

C30_Witness ==
    /\ response.op \in {"process_chunks", "search", "stats"}
    /\ \E d \in DOMAIN documents : documents[d].status = "FAILED"
    /\ \E d \in DOMAIN documents :
          documents[d].status = "COMPLETED" /\ StoreRecordsOf(collection, d) # {}

----------------------------------------------------------------------------
(* C28: once a request has been answered, the collection holds no record
   naming a document that was created and whose row is no longer in the
   documents table, also when the delete on the collection failed. *)
C28_NoOrphanedChunks ==
    \A d \in DocIds :
        (d < next_uuid /\ d \notin DOMAIN documents) => RecordsOf(d) = {}

----------------------------------------------------------------------------
====
